---- MODULE Spec2Model ----
(***************************************************************************)
(* Firmware update checker: check_firmware.py (logger variant) and         *)
(* firmware_scraper.py (print variant).  One run of main() is modelled as  *)
(* a sequence of steps, one per external call or decision.  Text is a      *)
(* sequence of one-character strings; the output of a subprocess is the    *)
(* sequence of its lines, i.e. the value of check_output(...).split('\n'). *)
(***************************************************************************)
EXTENDS Integers, Sequences, FiniteSets, TLC

VARIABLES variant, pc, calls, full_output, hw_data, model_id, serial,
          current_firmware, available_updates, sw_update_firmware,
          computer_name, table, website_firmware, output, log, exit_code,
          fault

vars == <<variant, pc, calls, full_output, hw_data, model_id, serial,
          current_firmware, available_updates, sw_update_firmware,
          computer_name, table, website_firmware, output, log, exit_code,
          fault>>

(***************************************************************************)
(* Bounds of the enumerated inputs.                                        *)
(***************************************************************************)
\* body lines of the system_profiler output after its header
MaxBody == 3
\* entry lines of the softwareupdate output after its header
MaxUpd == 2
\* rows of the firmware table markup
MaxRows == 3

\* the two scripts
CF == "check_firmware"
FS == "firmware_scraper"

(***************************************************************************)
(* Python values.                                                          *)
(***************************************************************************)
\* Python's None; no text equals it, since text holds single characters
None == <<"<None>">>
\* exit_code is <<>> until sys.exit(c) makes it <<c>>
NoExit == <<>>
NoFault == "none"

\* outcome of a function call: a returned value, a raised exception or a
\* sys.exit, each with the messages it printed or logged
Ret(v, m) == [tag |-> "ok", val |-> v, exc |-> NoFault, code |-> NoExit, msgs |-> m]
Raise(e, m) == [tag |-> "raise", val |-> None, exc |-> e, code |-> NoExit, msgs |-> m]
Exit(c, m) == [tag |-> "exit", val |-> None, exc |-> NoFault, code |-> c, msgs |-> m]
Msg(level, text) == [level |-> level, text |-> text]

(***************************************************************************)
(* str methods used by the scripts.                                        *)
(***************************************************************************)
\* characters str.strip() and str.split() treat as whitespace
Whitespace == {" ", "\t"}

RECURSIVE lstrip(_)
lstrip(s) == IF s = <<>> THEN s
             ELSE IF Head(s) \in Whitespace THEN lstrip(Tail(s)) ELSE s

RECURSIVE rstrip(_)
rstrip(s) == IF s = <<>> THEN s
             ELSE IF s[Len(s)] \in Whitespace THEN rstrip(SubSeq(s, 1, Len(s) - 1))
             ELSE s

\* s.strip()
strip(s) == rstrip(lstrip(s))

\* s[n:]
From(s, n) == SubSeq(s, n + 1, Len(s))

\* s.startswith(p)
startswith(s, p) == Len(s) >= Len(p) /\ SubSeq(s, 1, Len(p)) = p

\* 1-based index of the first occurrence of sub in s, 0 when there is none
Find(s, sub) ==
    LET hits == {i \in 1..(Len(s) - Len(sub) + 1) : SubSeq(s, i, i + Len(sub) - 1) = sub}
    IN  IF hits = {} THEN 0 ELSE CHOOSE i \in hits : \A j \in hits : i <= j

\* sub in s
contains(s, sub) == Find(s, sub) # 0

\* s.split(sep, 1): one piece when sep does not occur, else two
split1(s, sep) ==
    LET i == Find(s, sep)
    IN  IF i = 0 THEN <<s>>
        ELSE <<SubSeq(s, 1, i - 1), SubSeq(s, i + Len(sep), Len(s))>>

UpperCase == {"A", "B", "C", "D", "E", "F", "G", "H", "I", "J", "K", "L", "M",
              "N", "O", "P", "Q", "R", "S", "T", "U", "V", "W", "X", "Y", "Z"}
LowerOf == [c \in UpperCase |->
    CASE c = "A" -> "a" [] c = "B" -> "b" [] c = "C" -> "c" [] c = "D" -> "d"
      [] c = "E" -> "e" [] c = "F" -> "f" [] c = "G" -> "g" [] c = "H" -> "h"
      [] c = "I" -> "i" [] c = "J" -> "j" [] c = "K" -> "k" [] c = "L" -> "l"
      [] c = "M" -> "m" [] c = "N" -> "n" [] c = "O" -> "o" [] c = "P" -> "p"
      [] c = "Q" -> "q" [] c = "R" -> "r" [] c = "S" -> "s" [] c = "T" -> "t"
      [] c = "U" -> "u" [] c = "V" -> "v" [] c = "W" -> "w" [] c = "X" -> "x"
      [] c = "Y" -> "y" [] c = "Z" -> "z"]

\* s.lower()
lower(s) == [i \in 1..Len(s) |-> IF s[i] \in UpperCase THEN LowerOf[s[i]] ELSE s[i]]

\* sequences over S of length at most n
RECURSIVE SeqsUpTo(_, _)
SeqsUpTo(S, n) ==
    IF n = 0 THEN {<<>>}
    ELSE LET shorter == SeqsUpTo(S, n - 1)
         IN  shorter \cup {Append(q, x) : q \in {r \in shorter : Len(r) = n - 1}, x \in S}

(***************************************************************************)
(* Hardware profile: get_system_hardware_profile and the keys main reads.  *)
(***************************************************************************)
KeyModel == <<"M", "o", "d", "e", "l", " ", "I", "d", "e", "n", "t", "i", "f", "i", "e", "r">>
KeySerial == <<"S", "e", "r", "i", "a", "l", " ", "N", "u", "m", "b", "e", "r", " ", "(", "s", "y", "s", "t", "e", "m", ")">>
KeySMC == <<"S", "M", "C", " ", "V", "e", "r", "s", "i", "o", "n", " ", "(", "s", "y", "s", "t", "e", "m", ")">>
RequiredKeys == {KeyModel, KeySerial, KeySMC}

\* number of leading lines of the system_profiler output that are dropped
ProfileHeaderLines == 5

EmptyMap == [k \in {} |-> <<>>]

\* result[key] = value
MapPut(m, k, v) == [x \in DOMAIN m \cup {k} |-> IF x = k THEN v ELSE m[x]]

\* the loop over the stripped lines: key, value = line.split(':', 1)
RECURSIVE ProfileLoop(_, _)
ProfileLoop(lines, result) ==
    IF lines = <<>> THEN Ret(result, <<>>)
    ELSE LET parts == split1(Head(lines), <<":">>)
         IN  IF Len(parts) # 2 THEN Raise("ValueError", <<>>)
             ELSE ProfileLoop(Tail(lines), MapPut(result, parts[1], strip(parts[2])))

\* line != '' is tested on the line as read, before it is stripped
KeepLine(line) == line # <<>>

\* [line.strip() for line in output if line != '']
RECURSIVE StripLines(_)
StripLines(lines) ==
    IF lines = <<>> THEN <<>>
    ELSE IF KeepLine(Head(lines)) THEN <<strip(Head(lines))>> \o StripLines(Tail(lines))
    ELSE StripLines(Tail(lines))

get_system_hardware_profile(lines) ==
    ProfileLoop(StripLines(From(lines, ProfileHeaderLines)), EmptyMap)

\* the inputs: outputs of system_profiler
ProfileHeader == <<<<"H", "a", "r", "d", "w", "a", "r", "e", ":">>, <<>>, <<" ", " ", " ", " ", "H", "a", "r", "d", "w", "a", "r", "e", " ", "O", "v", "e", "r", "v", "i", "e", "w", ":">>, <<>>,
                   <<" ", " ", " ", " ", " ", " ", "M", "o", "d", "e", "l", " ", "I", "d", "e", "n", "t", "i", "f", "i", "e", "r", ":", " ", "H", "e", "a", "d", "e", "r", "1", ",", "1">>>>
ShortHeader == <<<<"H", "a", "r", "d", "w", "a", "r", "e", ":">>, <<>>>>
LineModel == <<" ", " ", "M", "o", "d", "e", "l", " ", "I", "d", "e", "n", "t", "i", "f", "i", "e", "r", ":", " ", "i", "M", "a", "c", "9", ",", "1">>
LineSerial == <<" ", " ", "S", "e", "r", "i", "a", "l", " ", "N", "u", "m", "b", "e", "r", " ", "(", "s", "y", "s", "t", "e", "m", ")", ":", " ", " ", "W", "8">>
LineSMC == <<" ", " ", "S", "M", "C", " ", "V", "e", "r", "s", "i", "o", "n", " ", "(", "s", "y", "s", "t", "e", "m", ")", ":", " ", "1", ".", "0", " ">>
LineColons == <<" ", " ", "B", "o", "o", "t", ":", " ", "a", ":", "b">>
LineBlank == <<" ", " ", " ">>
LineNoColon == <<"H", "a", "r", "d", "w", "a", "r", "e">>
BodyLines == {LineModel, LineSerial, LineSMC, LineColons, <<>>, LineBlank, LineNoColon}
ProfileOutputs ==
    {h \o b : h \in {ProfileHeader, ShortHeader}, b \in SeqsUpTo(BodyLines, MaxBody)}

\* each output with what get_system_hardware_profile() makes of it
ProfileRuns ==
    {[lines |-> text, result |-> get_system_hardware_profile(text)] : text \in ProfileOutputs}

(***************************************************************************)
(* OS update checker: check_software_update (check_firmware.py only).      *)
(***************************************************************************)
\* index of the line that is empty when softwareupdate found nothing
StatusLineIndex == 4
\* index of the first line that can name an update
FirstEntryIndex == 5
\* the marker that starts a line naming an update, and its length
Bullet == <<" ", " ", " ", "*", " ">>
BulletLen == 5

\* "firm" in item.lower() or "efi" in item.lower()
IsFirmwareName(item) ==
    contains(lower(item), <<"f", "i", "r", "m">>) \/ contains(lower(item), <<"e", "f", "i">>)

\* [item[5:] for item in available_updates if item.startswith('   * ')]
RECURSIVE UpdateNames(_)
UpdateNames(lines) ==
    IF lines = <<>> THEN <<>>
    ELSE IF startswith(Head(lines), Bullet)
         THEN <<From(Head(lines), BulletLen)>> \o UpdateNames(Tail(lines))
         ELSE UpdateNames(Tail(lines))

\* [item for item in available_updates if (firm or efi in the name)]
RECURSIVE FirmwareNames(_)
FirmwareNames(names) ==
    IF names = <<>> THEN <<>>
    ELSE IF IsFirmwareName(Head(names))
         THEN <<Head(names)>> \o FirmwareNames(Tail(names))
         ELSE FirmwareNames(Tail(names))

\* the status line is looked at first: available_updates[4] == ''
NoUpdatesListed(lines) == lines[StatusLineIndex + 1] = <<>>

check_software_update(lines) ==
    IF Len(lines) <= StatusLineIndex THEN Raise("IndexError", <<>>)
    ELSE IF NoUpdatesListed(lines) THEN Ret(<<>>, <<>>)
    ELSE Ret(FirmwareNames(UpdateNames(From(lines, FirstEntryIndex))), <<>>)

\* the inputs: outputs of softwareupdate -l
UpdateHeader == <<<<"S", "o", "f", "t", "w", "a", "r", "e", " ", "U", "p", "d", "a", "t", "e", " ", "T", "o", "o", "l">>, <<"C", "o", "p", "y", "r", "i", "g", "h", "t">>, <<>>,
                  <<"F", "i", "n", "d", "i", "n", "g", " ", "a", "v", "a", "i", "l", "a", "b", "l", "e", " ", "s", "o", "f", "t", "w", "a", "r", "e">>>>
StatusFound == <<"S", "o", "f", "t", "w", "a", "r", "e", " ", "U", "p", "d", "a", "t", "e", " ", "f", "o", "u", "n", "d", ":">>
EntryFirmware == <<" ", " ", " ", "*", " ", "X", "Y", "Z", " ", "F", "i", "r", "m", "w", "a", "r", "e", " ", "U", "p", "d", "a", "t", "e">>
EntryEFI == <<" ", " ", " ", "*", " ", "E", "F", "I", " ", "2">>
EntryOther == <<" ", " ", " ", "*", " ", "S", "a", "f", "a", "r", "i">>
EntryDescription == <<"\t", "f", "i", "r", "m", " ", "d", "e", "s", "c">>
EntryShortBullet == <<" ", " ", "*", " ", "f", "i", "r", "m", "f", "i", "x">>
EntryLines == {EntryFirmware, EntryEFI, EntryOther, EntryDescription, EntryShortBullet}
UpdateOutputs ==
    {<<<<>>>>, UpdateHeader}
    \cup {UpdateHeader \o <<s>> \o e :
             s \in {<<>>, StatusFound}, e \in SeqsUpTo(EntryLines, MaxUpd)}

\* each output with what check_software_update() makes of it
UpdateRuns ==
    {[lines |-> lines, result |-> check_software_update(lines)] : lines \in UpdateOutputs}

(***************************************************************************)
(* Computer-name resolver: get_computer_name, one per script.              *)
(***************************************************************************)
\* re.sub(r"<.*?>", "", s) on text: each '<' up to the next '>' is removed
RECURSIVE StripTags(_)
StripTags(s) ==
    IF s = <<>> THEN s
    ELSE IF Head(s) = "<" /\ Find(Tail(s), <<">">>) # 0
         THEN StripTags(From(s, Find(Tail(s), <<">">>) + 1))
         ELSE <<Head(s)>> \o StripTags(Tail(s))

\* "is not None" in place of the truth value: '' counts as a name
TruthyNotNone(v) == v # None

\* Python's truth value of None or a string
Truthy(v) == v # None /\ v # <<>>

ProductName == <<"p", "r", "o", "d", "u", "c", "t", "n", "a", "m", "e">>
HasProductName(line) == contains(line, ProductName)
DisplayProductInfo == <<"w", "a", "r", "r", "a", "n", "t", "y", "P", "a", "g", "e", ".", "w", "a", "r", "r", "a", "n", "t", "y", "c", "h", "e", "c", "k", ".", "d", "i", "s", "p", "l", "a", "y", "P", "r", "o", "d", "u", "c", "t", "I", "n", "f", "o">>
IsProductInfo(line) == startswith(line, DisplayProductInfo)

\* the line each script looks for in the page
Marks(v, line) == IF v = CF THEN HasProductName(line) ELSE IsProductInfo(line)

\* the loop over the page: the last stripped line that is marked
RECURSIVE LastMarked(_, _, _)
LastMarked(lines, v, result) ==
    IF lines = <<>> THEN result
    ELSE LastMarked(Tail(lines), v,
                    IF Marks(v, strip(Head(lines))) THEN strip(Head(lines)) ELSE result)

\* check_firmware.py
get_computer_name_cf(lines) ==
    LET result == LastMarked(lines, CF, None)
    IN  IF Truthy(result) THEN Ret(StripTags(result), <<>>) ELSE Ret(result, <<>>)

\* firmware_scraper.py
get_computer_name_fs(lines) ==
    LET result == LastMarked(lines, FS, None)
        parts == split1(result, <<",", " ">>)
    IN  IF Truthy(result)
        THEN IF Len(parts) < 2 THEN Raise("IndexError", <<>>)
             ELSE Ret(split1(From(parts[2], 1), <<"'">>)[1], <<>>)
        ELSE Ret(result, <<>>)

\* the inputs: pages of the warranty site
NameA == <<"A", "1">>
NameB == <<"B", "2">>
PageLineOther == <<"<", "h", "t", "m", "l", ">">>
NamePagesCF ==
    { <<PageLineOther>>,
      <<PageLineOther, <<" ", "<", "b", " ", "i", "d", "=", "p", "r", "o", "d", "u", "c", "t", "n", "a", "m", "e", ">", "A", "1", "<", "/", "b", ">">>>>,
      <<<<"<", "i", " ", "p", "r", "o", "d", "u", "c", "t", "n", "a", "m", "e", ">", "B", "2">>, PageLineOther>>,
      <<<<" ", "<", "b", " ", "i", "d", "=", "p", "r", "o", "d", "u", "c", "t", "n", "a", "m", "e", ">", "A", "1", "<", "/", "b", ">">>, <<"<", "i", " ", "p", "r", "o", "d", "u", "c", "t", "n", "a", "m", "e", ">", "B", "2">>>>,
      <<<<"<", "p", "r", "o", "d", "u", "c", "t", "n", "a", "m", "e", ">">>>> }
NamePagesFS ==
    { <<PageLineOther>>,
      <<PageLineOther, <<" ", "w", "a", "r", "r", "a", "n", "t", "y", "P", "a", "g", "e", ".", "w", "a", "r", "r", "a", "n", "t", "y", "c", "h", "e", "c", "k", ".", "d", "i", "s", "p", "l", "a", "y", "P", "r", "o", "d", "u", "c", "t", "I", "n", "f", "o", "(", "'", "x", "'", ",", " ", "'", "A", "1", "'", ",", " ", "'", "y", "'", ")", ";">>>>,
      <<<<"w", "a", "r", "r", "a", "n", "t", "y", "P", "a", "g", "e", ".", "w", "a", "r", "r", "a", "n", "t", "y", "c", "h", "e", "c", "k", ".", "d", "i", "s", "p", "l", "a", "y", "P", "r", "o", "d", "u", "c", "t", "I", "n", "f", "o", "(", "'", "x", "'", ",", " ", "'", "B", "2", "'", ")", ";">>, PageLineOther>>,
      <<<<"w", "a", "r", "r", "a", "n", "t", "y", "P", "a", "g", "e", ".", "w", "a", "r", "r", "a", "n", "t", "y", "c", "h", "e", "c", "k", ".", "d", "i", "s", "p", "l", "a", "y", "P", "r", "o", "d", "u", "c", "t", "I", "n", "f", "o", "(", "'", "x", "'", ",", " ", "'", "'", ")", ";">>>>,
      <<<<"w", "a", "r", "r", "a", "n", "t", "y", "P", "a", "g", "e", ".", "w", "a", "r", "r", "a", "n", "t", "y", "c", "h", "e", "c", "k", ".", "d", "i", "s", "p", "l", "a", "y", "P", "r", "o", "d", "u", "c", "t", "I", "n", "f", "o", "(", "'", "x", "'", ")", ";">>>> }

\* what get_computer_name() of each script can return or raise
ResolvedNamesCF == {get_computer_name_cf(lines) : lines \in NamePagesCF}
ResolvedNamesFS == {get_computer_name_fs(lines) : lines \in NamePagesFS}

(***************************************************************************)
(* Firmware reference table: get_firmware_table.  A line of the page is a  *)
(* sequence whose elements are characters and markup tokens: each literal  *)
(* the regular expressions look for (an entity, a tag, the heading row) is *)
(* one element.                                                            *)
(***************************************************************************)
SectionsMarker == <<"<", "d", "i", "v", " ", "i", "d", "=", "\"", "s", "e", "c", "t", "i", "o", "n", "s", "\"", " ", "i", "t", "e", "m", "p", "r", "o", "p", "=", "\"", "a", "r", "t", "i", "c", "l", "e", "B", "o", "d", "y", "\"", ">">>
Heading == "<tbody><tr><th><strong>Computer</strong></th><th><strong>Model identifier</strong></th><th><strong>EFI Boot ROM version</strong></th><th><strong>SMC version</strong></th></tr>"
TagTokens == {"<tr>", "</tr>", "<td>", "</td>", "<td colspan=\"4\">", "</tbody>", Heading}

\* the loop over the page: the line after the first marker line, else None
RECURSIVE TableSection(_, _)
TableSection(lines, grab_it) ==
    IF lines = <<>> THEN None
    ELSE IF grab_it THEN Head(lines)
    ELSE TableSection(Tail(lines), Head(lines) = SectionsMarker)

\* re.sub of one entity by a replacement text
RECURSIVE SubToken(_, _, _)
SubToken(s, tok, repl) ==
    IF s = <<>> THEN s
    ELSE (IF Head(s) = tok THEN repl ELSE <<Head(s)>>) \o SubToken(Tail(s), tok, repl)

\* the five entity substitutions, in the order the code applies them
DecodeEntities(s) ==
    SubToken(SubToken(SubToken(SubToken(SubToken(s,
        "&NewLine;", <<>>), "&Tab;", <<>>), "&nbsp;", <<>>), "&lpar;", <<"(">>), "&rpar;", <<")">>)

\* re.sub(r".*<heading row>", "", s): greedy, through the last heading row
RemoveHeading(s) ==
    LET hits == {i \in 1..Len(s) : s[i] = Heading}
    IN  IF hits = {} THEN s
        ELSE From(s, CHOOSE i \in hits : \A j \in hits : j <= i)

\* re.sub(r"</tbody>.*", "", s): from the first </tbody> to the end
RemoveTableEnd(s) ==
    LET i == Find(s, <<"</tbody>">>)
    IN  IF i = 0 THEN s ELSE SubSeq(s, 1, i - 1)

\* re.sub(r"<tr><td colspan.*?</tr>", "", s): each subheading row
RECURSIVE RemoveSubheadings(_)
RemoveSubheadings(s) ==
    IF s = <<>> THEN s
    ELSE IF startswith(s, <<"<tr>", "<td colspan=\"4\">">>) /\ Find(s, <<"</tr>">>) # 0
         THEN RemoveSubheadings(From(s, Find(s, <<"</tr>">>)))
         ELSE <<Head(s)>> \o RemoveSubheadings(Tail(s))

\* re.sub(r"</tr>", "</tr>\n", s).split('\n')
RECURSIVE SplitRows(_, _)
SplitRows(s, current) ==
    IF s = <<>> THEN <<current>>
    ELSE IF Head(s) = "</tr>"
         THEN <<Append(current, Head(s))>> \o SplitRows(Tail(s), <<>>)
         ELSE SplitRows(Tail(s), Append(current, Head(s)))

\* index of the first tok in s after position i, 0 when there is none
FindAfter(s, tok, i) ==
    LET j == Find(From(s, i), <<tok>>) IN IF j = 0 THEN 0 ELSE i + j

\* re.search of four <td>(.*?)</td> cells separated by .*?: the positions
\* of the four <td> and </td> found left to right, <<>> when there is no match
RECURSIVE CellBounds(_, _, _)
CellBounds(s, from, n) ==
    IF n = 0 THEN <<>>
    ELSE LET open == FindAfter(s, "<td>", from)
             close == IF open = 0 THEN 0 ELSE FindAfter(s, "</td>", open)
             rest == IF close = 0 THEN <<>> ELSE CellBounds(s, close, n - 1)
         IN  IF close = 0 \/ Len(rest) # n - 1 THEN <<>>
             ELSE <<<<open, close>>>> \o rest

\* number of cells the row pattern needs
RowCells == 4
\* search.group(k)
Group(s, bounds, k) == SubSeq(s, bounds[k][1] + 1, bounds[k][2] - 1)

\* re.sub(r"<.*?>", "", cell): a tag token, or '<' up to the next '>'
RECURSIVE StripCell(_)
StripCell(s) ==
    LET ends == {i \in 2..Len(s) : s[i] = ">" \/ s[i] \in TagTokens}
    IN  IF s = <<>> THEN s
        ELSE IF Head(s) \in TagTokens THEN StripCell(Tail(s))
        ELSE IF Head(s) = "<" /\ ends # {}
             THEN StripCell(From(s, CHOOSE i \in ends : \A j \in ends : i <= j))
        ELSE <<Head(s)>> \o StripCell(Tail(s))

\* ''.join(model_id.split())
RemoveWhitespace(s) == SelectSeq(s, LAMBDA c : c \notin Whitespace)

\* model IDs are compacted by check_firmware.py only
CompactModel(compact, m) == IF compact THEN RemoveWhitespace(m) ELSE m

\* the loop over the rows: a (computer, model_id, smc_version) per match
RECURSIVE TableRows(_, _)
TableRows(rows, compact) ==
    IF rows = <<>> THEN <<>>
    ELSE LET line == Head(rows)
             b == CellBounds(line, 0, RowCells)
         IN  (IF b = <<>> THEN <<>>
              ELSE << <<StripCell(Group(line, b, 1)),
                        CompactModel(compact, StripCell(Group(line, b, 2))),
                        StripCell(Group(line, b, 4))>> >>)
             \o TableRows(Tail(rows), compact)

get_firmware_table(lines, compact) ==
    LET table_section == TableSection(lines, FALSE)
    IN  IF table_section = None THEN Raise("TypeError", <<>>)
        ELSE Ret(TableRows(SplitRows(RemoveSubheadings(RemoveTableEnd(
                     RemoveHeading(DecodeEntities(table_section)))), <<>>), compact), <<>>)

\* the inputs: pages of the support site
Cell(text) == <<"<td>">> \o text \o <<"</td>">>
RowMarkup(computer, model, efi, smc) ==
    <<"<tr>">> \o Cell(computer) \o Cell(model) \o Cell(efi) \o Cell(smc) \o <<"</tr>">>
ModelIMac == <<"i", "M", "a", "c", "9", ",", "1">>
RowA == RowMarkup(<<"<", "p", ">", "A", "1", "<", "/", "p", ">">>, ModelIMac, <<"E", "1">>, <<"1", ".", "0">>)
RowB == RowMarkup(NameB, ModelIMac, <<"E", "1">>, <<"2", ".", "0", " ", "B", " ", "5">>)
RowALead == RowMarkup(NameA, <<"&nbsp;">> \o ModelIMac, <<"E", "1">>, <<" ", "2", ".", "0">>)
RowSpaced == RowMarkup(<<"C", "3">>, <<"i", "M", "a", "c", " ", "9", ",", "1">>, <<"E", "1">>, <<"2", ".", "0", "\t", "B">>)
RowMini == RowMarkup(<<"&lpar;">> \o <<"m">> \o <<"&rpar;">>, <<"M", "i", "n", "i", "3", ",", "1">>, <<"E", "3">>, <<"3", ".", "0", " ", " ", "x">>)
\* a subheading row, then a row of three cells, which is no row of the table
RowSubheading == <<"<tr>", "<td colspan=\"4\">">> \o <<"i", "M", "a", "c">> \o <<"</td>", "</tr>">>
RowThreeCells == <<"<tr>">> \o Cell(NameA) \o Cell(ModelIMac) \o Cell(<<"9", ".", "9">>) \o <<"</tr>">>
RowMarkups == {RowA, RowB, RowALead, RowSpaced, RowMini, RowSubheading \o RowThreeCells}

RECURSIVE Concat(_)
Concat(ss) == IF ss = <<>> THEN <<>> ELSE Head(ss) \o Concat(Tail(ss))

TableLine(rows) ==
    <<"<", "t", ">">> \o <<Heading>> \o Concat(rows) \o <<"</tbody>">> \o <<"<", "/", "t", ">">>
TablePages ==
    { <<PageLineOther>>, <<PageLineOther, SectionsMarker>> }
    \cup {<<PageLineOther, SectionsMarker, TableLine(rows), PageLineOther>> :
             rows \in SeqsUpTo(RowMarkups, MaxRows)}

\* what get_firmware_table() of each script can return or raise
FetchedTablesCF == {get_firmware_table(lines, TRUE) : lines \in TablePages}
FetchedTablesFS == {get_firmware_table(lines, FALSE) : lines \in TablePages}

(***************************************************************************)
(* Firmware matcher: get_website_firmware and get_desired_firmware.        *)
(***************************************************************************)
\* [line for line in table if line[1] == model_id]
ModelMatches(tbl, model) == SelectSeq(tbl, LAMBDA line : line[2] = model)
\* [line for line in matches if line[0] == computer_name]
NameMatches(matches, name) == SelectSeq(matches, LAMBDA line : line[1] = name)

\* text.split(' ', 1)[0]
LeadingToken(text) == split1(text, <<" ">>)[1]

\* match[2].split(' ', 1)[0] when match is one row of the table
VersionOfRow(row, m) == Ret(LeadingToken(row[3]), m)

\* match[2].split(' ', 1)[0] when match is the list of rows with the name:
\* the list has no third element, or its third element is a row, not text
VersionOfList(match, m) ==
    IF Len(match) < 3 THEN Raise("IndexError", m) ELSE Raise("AttributeError", m)

\* check_firmware.py
get_website_firmware(tbl, model, name) ==
    LET matches == ModelMatches(tbl, model)
        match == NameMatches(matches, name)
        multiple == <<Msg("warn", "Multiple matches found")>>
    IN  IF Len(matches) = 0 THEN Ret(None, <<Msg("warn", "No such model ID found")>>)
        ELSE IF Len(matches) > 1
        THEN IF Len(match) = 0
             THEN Ret(None, Append(multiple, Msg("error", "No match between model ID and computer name")))
             ELSE VersionOfList(match, multiple)
        ELSE VersionOfRow(matches[1], <<>>)

\* exit code of firmware_scraper.py when no row has the computer name
ExitNoMatch == 5

\* firmware_scraper.py: with no matching model, match is never assigned
get_desired_firmware(tbl, model, name) ==
    LET matches == ModelMatches(tbl, model)
        match == NameMatches(matches, name)
        multiple == <<Msg("print", "Multiple matches found")>>
    IN  IF Len(matches) = 0
        THEN Raise("UnboundLocalError", <<Msg("print", "No such model ID found")>>)
        ELSE IF Len(matches) > 1
        THEN IF Len(match) = 0
             THEN Exit(ExitNoMatch, Append(multiple, Msg("print", "No match between model ID and computer name")))
             ELSE VersionOfList(match, multiple)
        ELSE VersionOfRow(matches[1], <<>>)

(***************************************************************************)
(* main(): the run of either script, one step per call or decision.        *)
(***************************************************************************)
\* exit codes of main
ExitNoUpdate == 0
ExitKeyError == 2
ExitUpdateFoundCF == 10
ExitUpdateFoundFS == 1

\* the level messages are reported at: the logger's, or a plain print
Level(v, level) == IF v = CF THEN level ELSE "print"

Init ==
    /\ variant \in {CF, FS}
    /\ pc = "start"
    /\ calls = <<>>
    /\ full_output = None
    /\ hw_data = EmptyMap
    /\ model_id = None
    /\ serial = None
    /\ current_firmware = None
    /\ available_updates = None
    /\ sw_update_firmware = None
    /\ computer_name = None
    /\ table = None
    /\ website_firmware = None
    /\ output = <<>>
    /\ log = <<>>
    /\ exit_code = NoExit
    /\ fault = NoFault

\* an uncaught exception ends the run
Uncaught(r) ==
    /\ pc' = "fault"
    /\ fault' = r.exc

\* sys.exit(code)
SysExit(code) ==
    /\ pc' = "exited"
    /\ exit_code' = <<code>>

\* hw_data = get_system_hardware_profile()
GetSystemHardwareProfile ==
    /\ pc = "start"
    /\ \E run \in ProfileRuns :
         LET r == run.result
         IN  /\ calls' = Append(calls, "system_profiler")
             /\ full_output' = run.lines
             /\ IF r.tag = "ok"
                THEN /\ hw_data' = r.val
                     /\ pc' = "keys"
                     /\ UNCHANGED fault
                ELSE /\ Uncaught(r)
                     /\ UNCHANGED hw_data
    /\ UNCHANGED <<variant, model_id, serial, current_firmware, available_updates,
                   sw_update_firmware, computer_name, table,
                   website_firmware, output, log, exit_code>>

\* only the first lookup is guarded
FirstMissingKeyModelOnly(hw) == IF KeyModel \notin DOMAIN hw THEN KeyModel ELSE None

\* the first of the three keys whose lookup raises KeyError, None when none does
FirstMissingKey(hw) ==
    IF KeyModel \notin DOMAIN hw THEN KeyModel
    ELSE IF KeySerial \notin DOMAIN hw THEN KeySerial
    ELSE IF KeySMC \notin DOMAIN hw THEN KeySMC
    ELSE None

\* hw_data[key], once the key is known to be there
Lookup(hw, key) == IF key \in DOMAIN hw THEN hw[key] ELSE None

\* the computer name is looked up first, the update utility never
AfterKeysNameFirst(v) == "name"

\* the step main takes once the three keys are read
AfterKeys(v) == IF v = CF THEN "sw_update" ELSE "name"

\* the three try/except KeyError blocks
ExtractKeys ==
    /\ pc = "keys"
    /\ full_output' = None
    /\ IF FirstMissingKey(hw_data) # None
       THEN /\ log' = Append(log, Msg(Level(variant, "critical"),
                                      <<"Invalid key", FirstMissingKey(hw_data)>>))
            /\ SysExit(ExitKeyError)
            /\ UNCHANGED <<model_id, serial, current_firmware>>
       ELSE /\ model_id' = Lookup(hw_data, KeyModel)
            /\ serial' = Lookup(hw_data, KeySerial)
            /\ current_firmware' = Lookup(hw_data, KeySMC)
            /\ log' = IF variant = CF
                      THEN log \o <<Msg("debug", "Model ID"), Msg("debug", "Serial Number"),
                                    Msg("debug", "Current SMC Version")>>
                      ELSE log
            /\ pc' = AfterKeys(variant)
            /\ UNCHANGED exit_code
    /\ UNCHANGED <<variant, calls, hw_data, available_updates, sw_update_firmware,
                   computer_name, table, website_firmware, output, fault>>

\* sw_update_firmware = check_software_update()
CheckSoftwareUpdate ==
    /\ pc = "sw_update"
    /\ \E run \in UpdateRuns :
         LET r == run.result
         IN  /\ calls' = Append(calls, "softwareupdate")
             /\ available_updates' = run.lines
             /\ IF r.tag = "ok"
                THEN /\ sw_update_firmware' = r.val
                     /\ pc' = "name"
                     /\ UNCHANGED fault
                ELSE /\ Uncaught(r)
                     /\ UNCHANGED sw_update_firmware
    /\ UNCHANGED <<variant, full_output, hw_data, model_id, serial, current_firmware,
                   computer_name, table, website_firmware, output, log,
                   exit_code>>

\* computer_name = get_computer_name(serial)
GetComputerName ==
    /\ pc = "name"
    /\ \E r \in (IF variant = CF THEN ResolvedNamesCF ELSE ResolvedNamesFS) :
         /\ calls' = Append(calls, "curl warranty")
         /\ IF r.tag = "ok"
            THEN /\ computer_name' = r.val
                 /\ pc' = "site"
                 /\ UNCHANGED fault
            ELSE /\ Uncaught(r)
                 /\ UNCHANGED computer_name
    /\ available_updates' = None
    /\ UNCHANGED <<variant, full_output, hw_data, model_id, serial, current_firmware,
                   sw_update_firmware, table, website_firmware, output, log,
                   exit_code>>

\* the matcher of the script, applied to the table it fetched
firmware_matcher(v, tbl, model, name) ==
    IF v = CF THEN get_website_firmware(tbl, model, name)
    ELSE get_desired_firmware(tbl, model, name)

\* check_firmware.py consults the site only "if computer_name:";
\* firmware_scraper.py always does
ConsultsSite(v, name) == v = FS \/ Truthy(name)

\* website_firmware = get_website_firmware(model_id, computer_name, logger)
\* desired_firmware = get_desired_firmware(model_id, computer_name)
GetWebsiteFirmware ==
    /\ pc = "site"
    /\ ConsultsSite(variant, computer_name)
    /\ \E t \in (IF variant = CF THEN FetchedTablesCF ELSE FetchedTablesFS) :
         LET r == firmware_matcher(variant, t.val, model_id, computer_name)
             seen == IF variant = CF THEN Append(log, Msg("debug", "Computer Name")) ELSE log
         IN  /\ calls' = Append(calls, "curl support")
             /\ IF t.tag # "ok"
                THEN /\ Uncaught(t)
                     /\ log' = seen
                     /\ UNCHANGED <<table, website_firmware, exit_code>>
                ELSE /\ table' = t.val
                     /\ log' = seen \o r.msgs
                     /\ CASE r.tag = "ok" ->
                               /\ website_firmware' = r.val
                               /\ pc' = "decide"
                               /\ UNCHANGED <<exit_code, fault>>
                          [] r.tag = "raise" ->
                               /\ Uncaught(r)
                               /\ UNCHANGED <<website_firmware, exit_code>>
                          [] r.tag = "exit" ->
                               /\ SysExit(r.code)
                               /\ UNCHANGED <<website_firmware, fault>>
    /\ UNCHANGED <<variant, full_output, hw_data, model_id, serial, current_firmware,
                   available_updates, sw_update_firmware, computer_name, output>>

\* the else branch of "if computer_name:"
SkipWebsite ==
    /\ pc = "site"
    /\ ~ConsultsSite(variant, computer_name)
    /\ log' = Append(log, Msg("warn", "Unable to look up website firmware information."))
    /\ website_firmware' = None
    /\ pc' = "decide"
    /\ UNCHANGED <<variant, calls, full_output, hw_data, model_id, serial,
                   current_firmware, available_updates, sw_update_firmware,
                   computer_name, table, output, exit_code, fault>>

\* the comparison without its test for the empty string
website_firmware_available_no_empty(wf, current) == ~(wf = None \/ wf = current)

\* not (website_firmware is None or website_firmware == '' or
\*      website_firmware == current_firmware)
website_firmware_available(wf, current) ==
    ~(wf = None \/ wf = <<>> \/ wf = current)

\* len(sw_update_firmware) != 0
sw_update_firmware_available(updates) == Len(updates) # 0

OutLine(source, text) == [source |-> source, text |-> text]

\* the report check_firmware.py builds when an update is available
Report(wf, current, updates) ==
    <<OutLine("Firmware updates found:", <<>>)>>
    \o (IF website_firmware_available(wf, current)
        THEN <<OutLine("Apple support site", wf)>> ELSE <<>>)
    \o (IF sw_update_firmware_available(updates)
        THEN [i \in 1..Len(updates) |-> OutLine("softwareupdate", updates[i])]
        ELSE <<>>)

\* check_firmware.py: the decision and the exit
DecideCF ==
    /\ pc = "decide"
    /\ variant = CF
    /\ IF ~(website_firmware_available(website_firmware, current_firmware)
            \/ sw_update_firmware_available(sw_update_firmware))
       THEN /\ output' = <<OutLine("No new firmware version identified.", <<>>)>>
            /\ SysExit(ExitNoUpdate)
       ELSE /\ output' = Report(website_firmware, current_firmware, sw_update_firmware)
            /\ SysExit(ExitUpdateFoundCF)
    /\ log' = Append(log, Msg("info", "report"))
    /\ table' = None
    /\ UNCHANGED <<variant, calls, full_output, hw_data, model_id, serial,
                   current_firmware, available_updates, sw_update_firmware,
                   computer_name, website_firmware, fault>>

\* firmware_scraper.py: the decision and the exit
DecideFS ==
    /\ pc = "decide"
    /\ variant = FS
    /\ IF ~website_firmware_available(website_firmware, current_firmware)
       THEN /\ output' = <<OutLine("No new firmware version identified.", <<>>)>>
            /\ SysExit(ExitNoUpdate)
       ELSE /\ output' = <<OutLine("New firmware version available:", website_firmware)>>
            /\ SysExit(ExitUpdateFoundFS)
    /\ log' = Append(log, Msg("print", "report"))
    /\ table' = None
    /\ UNCHANGED <<variant, calls, full_output, hw_data, model_id, serial,
                   current_firmware, available_updates, sw_update_firmware,
                   computer_name, website_firmware, fault>>

Next ==
    \/ GetSystemHardwareProfile
    \/ ExtractKeys
    \/ CheckSoftwareUpdate
    \/ GetComputerName
    \/ GetWebsiteFirmware
    \/ SkipWebsite
    \/ DecideCF
    \/ DecideFS

Spec == Init /\ [][Next]_vars

(***************************************************************************)
(* Properties.                                                             *)
(***************************************************************************)
Range(s) == {s[i] : i \in DOMAIN s}

\* the three keys main reads have been looked up in hw_data
KeysExtracted ==
    /\ pc \notin {"start", "keys"}
    /\ ~(pc = "fault" /\ calls = <<"system_profiler">>)

\* the reference-site version counts as an update
SiteSignal ==
    /\ website_firmware # None
    /\ website_firmware # <<>>
    /\ website_firmware # current_firmware

\* the lines of the report that name the pending updates, in their order
UpdateLines(updates) == [i \in 1..Len(updates) |-> OutLine("softwareupdate", updates[i])]

\* C1: when one of the three required keys is absent from the hardware
\* profile mapping, the run (of either script) ends with exit code 2 and
\* has called neither the HTTP client nor the update utility: the only
\* external call of the run is the one to system_profiler.
C1_MissingKeyExitsBeforeCalls ==
    (KeysExtracted /\ ~(RequiredKeys \subseteq DOMAIN hw_data))
        => /\ pc = "exited"
           /\ exit_code = <<2>>
           /\ calls = <<"system_profiler">>

\* C1 witness: the serial number alone is missing and the run has exited
C1_Witness ==
    /\ pc = "exited"
    /\ exit_code = <<2>>
    /\ DOMAIN hw_data = {KeyModel, KeySMC}

\* the rows of the fetched table with the model identifier of this computer
RowsOfModel == SelectSeq(table, LAMBDA row : row[2] = model_id)
\* those of them with the resolved computer name
RowsOfName == SelectSeq(RowsOfModel, LAMBDA row : row[1] = computer_name)

\* the first whitespace-delimited token of a text
RECURSIVE UpToWhitespace(_)
UpToWhitespace(s) ==
    IF s = <<>> \/ Head(s) \in Whitespace THEN <<>>
    ELSE <<Head(s)>> \o UpToWhitespace(Tail(s))
FirstWhitespaceToken(s) == UpToWhitespace(lstrip(s))

\* C2: when two or more rows of the table have the model identifier and
\* exactly one of them has the computer name, the matcher raises no fault
\* and returns the leading token of that row's firmware-version column.
C2_NameSelectsSingleRow ==
    (table # None /\ Len(RowsOfModel) >= 2 /\ Len(RowsOfName) = 1)
        => /\ pc # "fault"
           /\ website_firmware = FirstWhitespaceToken(RowsOfName[1][3])

\* C3: when no row of the table has the model identifier, the matcher (of
\* either script) reports "not found" and yields no version, without an
\* uncaught fault.
C3_NoModelIsNotFound ==
    (table # None /\ Len(RowsOfModel) = 0)
        => /\ pc # "fault"
           /\ website_firmware = None
           /\ \E i \in DOMAIN log : log[i].text = "No such model ID found"

\* C4: once the three keys are read and the decision is reached,
\* check_firmware.py exits 0 with "No new firmware version identified."
\* exactly when the update list is empty and the reference-site version is
\* none, empty or the current one; otherwise it exits 10 and its report
\* lists the reference-site version iff that is none of these, followed by
\* every update name in order.  firmware_scraper.py: the same rule on the
\* reference-site version alone, with exit 1 for an update.
C4_DecisionRule ==
    (pc = "exited" /\ exit_code \notin {<<2>>, <<5>>})
        => IF variant = CF
           THEN /\ exit_code = IF sw_update_firmware = <<>> /\ ~SiteSignal
                               THEN <<0>> ELSE <<10>>
                /\ exit_code = <<0>>
                     => output = <<OutLine("No new firmware version identified.", <<>>)>>
                /\ exit_code = <<10>>
                     => output = <<OutLine("Firmware updates found:", <<>>)>>
                                 \o (IF SiteSignal
                                     THEN <<OutLine("Apple support site", website_firmware)>>
                                     ELSE <<>>)
                                 \o UpdateLines(sw_update_firmware)
           ELSE /\ exit_code = IF SiteSignal THEN <<1>> ELSE <<0>>
                /\ exit_code = <<0>>
                     => output = <<OutLine("No new firmware version identified.", <<>>)>>
                /\ exit_code = <<1>>
                     => output = <<OutLine("New firmware version available:", website_firmware)>>

\* C4 witness: check_firmware.py reports a newer site version and two updates
C4_Witness ==
    /\ variant = CF
    /\ pc = "exited"
    /\ exit_code = <<10>>
    /\ current_firmware = <<"1", ".", "0">>
    /\ website_firmware = <<"2", ".", "0">>
    /\ Len(sw_update_firmware) = 2
    /\ Len(output) = 4

\* C5: in check_firmware.py, when the resolver returned no name (None or
\* ''), the reference table is never fetched, the website version stays
\* None, and the run ends by the update list alone: exit 10 with a report
\* of each update name when the list is non-empty, exit 0 otherwise.
C5_NoNameSkipsSite ==
    (variant = CF /\ "curl warranty" \in Range(calls) /\ computer_name \in {None, <<>>})
        => /\ "curl support" \notin Range(calls)
           /\ pc # "fault"
           /\ website_firmware = None
           /\ pc = "exited"
                => /\ exit_code = IF sw_update_firmware = <<>> THEN <<0>> ELSE <<10>>
                   /\ exit_code = <<10>>
                        => output = <<OutLine("Firmware updates found:", <<>>)>>
                                    \o UpdateLines(sw_update_firmware)

\* C5 witness: the resolved name is '' and the one pending update is reported
C5_Witness ==
    /\ variant = CF
    /\ pc = "exited"
    /\ computer_name = <<>>
    /\ exit_code = <<10>>
    /\ Len(sw_update_firmware) = 1
    /\ Len(output) = 2

\* C6: when exactly one row of the table has the model identifier, the
\* matcher returns the first whitespace-delimited token of that row's
\* firmware-version column, whatever the column holds (leading whitespace,
\* tab or multiple-space separators, no description).
C6_SingleRowFirstToken ==
    (table # None /\ Len(RowsOfModel) = 1)
        => /\ pc # "fault"
           /\ website_firmware = FirstWhitespaceToken(RowsOfModel[1][3])

\* the reference of C7: nothing when the line at index 4 is empty, else the
\* lines at index >= 5 that start with the bullet, without it, whose
\* lowercased text contains "firm" or "efi", in order
BulletPrefix == <<" ", " ", " ", "*", " ">>
RefNamed(lines) ==
    SelectSeq([i \in 1..(Len(lines) - 5) |-> lines[i + 5]],
              LAMBDA l : Len(l) >= 5 /\ SubSeq(l, 1, 5) = BulletPrefix)
RefNames(lines) == [i \in 1..Len(RefNamed(lines)) |-> SubSeq(RefNamed(lines)[i], 6, Len(RefNamed(lines)[i]))]
RefFirmwareUpdates(lines) ==
    IF Len(lines) >= 5 /\ lines[5] = <<>> THEN <<>>
    ELSE SelectSeq(RefNames(lines),
                   LAMBDA n : \E i \in 1..Len(n) :
                       \/ /\ i + 3 <= Len(n)
                          /\ lower(SubSeq(n, i, i + 3)) = <<"f", "i", "r", "m">>
                       \/ /\ i + 2 <= Len(n)
                          /\ lower(SubSeq(n, i, i + 2)) = <<"e", "f", "i">>)

\* C7: for every output of the update utility, check_software_update
\* returns the reference list.
C7_UpdateListIsReference ==
    available_updates # None
        => /\ pc # "fault"
           /\ sw_update_firmware = RefFirmwareUpdates(available_updates)

\* the reference of C8: the non-blank lines after the first five, each
\* split at its first colon into a key and a trimmed value, a later line
\* of a key replacing an earlier one
RefBody(lines) ==
    SelectSeq([i \in 1..(Len(lines) - 5) |-> strip(lines[i + 5])], LAMBDA l : l # <<>>)
RefKey(l) == split1(l, <<":">>)[1]
RefValue(l) == strip(From(l, Len(RefKey(l)) + 1))
RefProfile(lines) ==
    LET body == RefBody(lines)
        last(k) == CHOOSE i \in DOMAIN body :
                       /\ RefKey(body[i]) = k
                       /\ \A j \in DOMAIN body : RefKey(body[j]) = k => j <= i
    IN  [k \in {RefKey(body[i]) : i \in DOMAIN body} |-> RefValue(body[last(k)])]

\* C8: for every output of system_profiler whose non-blank lines after the
\* first five all hold a colon, get_system_hardware_profile raises no
\* fault on the blank lines (empty or whitespace only) and returns the
\* reference mapping.
C8_ProfileIsReference ==
    (full_output # None /\ \A i \in DOMAIN RefBody(full_output) :
                               contains(RefBody(full_output)[i], <<":">>))
        => /\ pc # "fault"
           /\ hw_data = RefProfile(full_output)

\* C9: every run ends through sys.exit with a documented code, {0, 2, 10}
\* for check_firmware.py and {0, 1, 2, 5} for firmware_scraper.py, and
\* never in an uncaught fault.
C9_ExitsWithDocumentedCode ==
    /\ pc # "fault"
    /\ pc = "exited"
         => exit_code \in (IF variant = CF THEN {<<0>>, <<2>>, <<10>>}
                           ELSE {<<0>>, <<1>>, <<2>>, <<5>>})

IsPrefix(s, t) == Len(s) <= Len(t) /\ s = SubSeq(t, 1, Len(s))

\* C10 as stated: in check_firmware.py the external calls come in the
\* order of the overview, the update utility after the computer-name
\* lookup and the reference-table fetch.
C10_UpdateQueryLast ==
    variant = CF
        => IsPrefix(calls, <<"system_profiler", "curl warranty", "curl support",
                             "softwareupdate">>)

\* C10 as amended: in check_firmware.py the steps come in the order
\* hardware profile, key extraction, update-utility query, computer-name
\* lookup, reference-table fetch (only with a name), decision and exit:
\* the update utility is called before the name lookup and the table fetch.
C10_UpdateQueryFirst ==
    variant = CF
        => /\ IsPrefix(calls, <<"system_profiler", "softwareupdate", "curl warranty",
                                "curl support">>)
           /\ pc = "start" => Len(calls) = 0
           /\ pc \in {"keys", "sw_update"} => Len(calls) = 1
           /\ pc = "name" => Len(calls) = 2
           /\ pc = "site" => Len(calls) = 3
           /\ pc = "decide" => Len(calls) \in {3, 4}
           /\ pc = "exited" => Len(calls) = IF exit_code = <<2>> THEN 1
                                            ELSE IF computer_name \in {None, <<>>} THEN 3 ELSE 4

\* C10 witness: a run of check_firmware.py that made all four calls and exited
C10_Witness ==
    /\ variant = CF
    /\ pc = "exited"
    /\ calls = <<"system_profiler", "softwareupdate", "curl warranty", "curl support">>

====
